---------------------------- MODULE Spec2Model ----------------------------
(***************************************************************************)
(* A model of the Z80 disassembler of disassemble_z80.py: the byte cursor  *)
(* (read_byte, peek_byte, read_word), the label registry (format_addr,     *)
(* get_label), the opcode decoder (disassemble_instruction and the four    *)
(* prefix decoders) and the listing loop (disassemble_all).                *)
(*                                                                         *)
(* Python values are modelled as follows.  An optional value (a byte or a  *)
(* word that may be None) is a sequence: << >> is None and <<v>> is v.     *)
(* Text is a TLA+ string; a label name is kept as its sequence of          *)
(* characters and joined into text by Str.  A Python exception (every one  *)
(* the decoder can raise is a TypeError on a None operand) is the result   *)
(* kind "raised".                                                          *)
(***************************************************************************)
EXTENDS Integers, Sequences, FiniteSets, TLC

(***************************************************************************)
(* Bounds of the model.                                                    *)
(***************************************************************************)
MaxLen == 4
MaxCap == 2

(***************************************************************************)
(* Optional values.                                                        *)
(***************************************************************************)
None == << >>

Some(v) == <<v>>

(***************************************************************************)
(* Python's format(v, "0<w>X"): uppercase hexadecimal, padded with zeros   *)
(* to width w, the sign of a negative value counted in the width, and      *)
(* never truncated.                                                        *)
(***************************************************************************)
HexChars == <<"0", "1", "2", "3", "4", "5", "6", "7",
              "8", "9", "A", "B", "C", "D", "E", "F">>

RECURSIVE HexDigits(_)
HexDigits(n) ==
    IF n < 16 THEN <<HexChars[n + 1]>>
    ELSE HexDigits(n \div 16) \o <<HexChars[(n % 16) + 1]>>

RECURSIVE ZeroPad(_, _)
ZeroPad(s, w) == IF Len(s) >= w THEN s ELSE ZeroPad(<<"0">> \o s, w)

FormatX(v, w) ==
    IF v >= 0 THEN ZeroPad(HexDigits(v), w)
    ELSE <<"-">> \o ZeroPad(HexDigits(-v), w - 1)

RECURSIVE Str(_)
Str(s) == IF s = << >> THEN "" ELSE s[1] \o Str(Tail(s))

Hex2(v) == Str(FormatX(v, 2))

Hex4(v) == Str(FormatX(v, 4))

(***************************************************************************)
(* The byte cursor.  data is a sequence of bytes (1-based in TLA+), pos    *)
(* the 0-based read position of the code.                                  *)
(***************************************************************************)
\* read_byte without the end-of-input signal: past the end it yields a
\* zero byte and still advances.
read_byte_past_end(data, pos) ==
    IF pos >= Len(data) THEN [val |-> Some(0), pos |-> pos + 1]
    ELSE [val |-> Some(data[pos + 1]), pos |-> pos + 1]

read_byte(data, pos) ==
    IF pos >= Len(data) THEN [val |-> None, pos |-> pos]
    ELSE [val |-> Some(data[pos + 1]), pos |-> pos + 1]

peek_byte(data, pos, offset) ==
    IF pos + offset >= Len(data) THEN None
    ELSE Some(data[pos + offset + 1])

\* byte1 | (byte2 << 8): the bits of the two operands are disjoint.
read_word(data, pos) ==
    IF pos + 1 >= Len(data) THEN [val |-> None, pos |-> pos]
    ELSE [val |-> Some(data[pos + 1] + data[pos + 2] * 256), pos |-> pos + 2]

(***************************************************************************)
(* The label registry: a function from addresses to label names.           *)
(***************************************************************************)
NoLabels == [a \in {} |-> << >>]

format_addr(addr) == <<"L">> \o FormatX(addr, 4)

get_label(labels, addr) ==
    IF addr \in DOMAIN labels THEN [labels |-> labels, name |-> labels[addr]]
    ELSE [labels |-> [a \in DOMAIN labels \cup {addr} |->
                         IF a \in DOMAIN labels THEN labels[a]
                         ELSE format_addr(addr)],
          name |-> format_addr(addr)]

REG_8 == <<"B", "C", "D", "E", "H", "L", "(HL)", "A">>

(***************************************************************************)
(* Results of decoding one instruction.  kind is "ok" (inst, size          *)
(* returned), "none" (None, 0 returned) or "raised" (a TypeError left the  *)
(* decoder).  pos and labels are the cursor and the registry the call      *)
(* leaves behind; target is the resolved target of a control transfer      *)
(* (None for any other instruction).                                       *)
(***************************************************************************)
Ok(inst, size, pos, labels, target) ==
    [kind |-> "ok", inst |-> inst, size |-> size, pos |-> pos,
     labels |-> labels, target |-> target]

Raised(pos, labels) ==
    [kind |-> "raised", inst |-> "", size |-> 0, pos |-> pos,
     labels |-> labels, target |-> None]

NoInstruction(pos, labels) ==
    [kind |-> "none", inst |-> "", size |-> 0, pos |-> pos,
     labels |-> labels, target |-> None]

(***************************************************************************)
(* The operand shapes of the base table.  pos is the cursor after the      *)
(* opcode byte.                                                            *)
(***************************************************************************)
\* return "<text>", 1
Plain(text, pos, labels) == Ok(text, 1, pos, labels, None)

\* byte = self.read_byte(); return f"<pre>{byte:02X}<post>", 2
\* (formatting None raises TypeError)
ImmByte(pre, post, data, pos, labels) ==
    LET r == read_byte(data, pos) IN
    IF r.val = None THEN Raised(r.pos, labels)
    ELSE Ok(pre \o Hex2(r.val[1]) \o post, 2, r.pos, labels, None)

\* word = self.read_word(); return f"<pre>{word:04X}<post>", 3
ImmWord(pre, post, data, pos, labels) ==
    LET r == read_word(data, pos) IN
    IF r.val = None THEN Raised(r.pos, labels)
    ELSE Ok(pre \o Hex4(r.val[1]) \o post, 3, r.pos, labels, None)

\* offset = self.read_byte(); if offset > 127: offset -= 256
\* target = addr + 2 + offset; return f"<pre>{self.get_label(target)}", 2
\* (None > 127 raises TypeError)
\* The displacement taken as an unsigned byte.
SignedOffset_unsigned(b) == b

SignedOffset(b) == IF b > 127 THEN b - 256 ELSE b

RelBranch(pre, addr, data, pos, labels) ==
    LET r == read_byte(data, pos) IN
    IF r.val = None THEN Raised(r.pos, labels)
    ELSE LET target == addr + 2 + SignedOffset(r.val[1])
             g == get_label(labels, target)
         IN Ok(pre \o Str(g.name), 2, r.pos, g.labels, Some(target))

\* word = self.read_word(); return f"<pre>{self.get_label(word)}", 3
\* (get_label(None) raises TypeError in format_addr, before the registry
\* is written)
AbsBranch(pre, data, pos, labels) ==
    LET r == read_word(data, pos) IN
    IF r.val = None THEN Raised(r.pos, labels)
    ELSE LET g == get_label(labels, r.val[1])
         IN Ok(pre \o Str(g.name), 3, r.pos, g.labels, r.val)

\* return f"DB &{opcode:02X}", 1
RawData(opcode, pos, labels) == Ok("DB &" \o Hex2(opcode), 1, pos, labels, None)


(***************************************************************************)
(* The base table, in the order of the source: opcodes 0x00-0x1F one by   *)
(* one, the block 0x20-0x27, the LD r,r grid 0x40-0x7F, the ALU grid       *)
(* 0x80-0xBF and the block 0xC0-0xFF.  Opcodes are written in decimal; an  *)
(* opcode no branch returns for (0x28-0x3F) falls through to the final     *)
(* raw-data return.                                                        *)
(***************************************************************************)
\* opcodes 0x00-0x1F
Main00_1F(opcode, addr, data, pos, labels) ==
    CASE opcode = 0 -> Plain("NOP", pos, labels)
      [] opcode = 1 -> ImmWord("LD BC,&", "", data, pos, labels)
      [] opcode = 2 -> Plain("LD (BC),A", pos, labels)
      [] opcode = 3 -> Plain("INC BC", pos, labels)
      [] opcode = 4 -> Plain("INC B", pos, labels)
      [] opcode = 5 -> Plain("DEC B", pos, labels)
      [] opcode = 6 -> ImmByte("LD B,&", "", data, pos, labels)
      [] opcode = 7 -> Plain("RLCA", pos, labels)
      [] opcode = 8 -> Plain("EX AF,AF'", pos, labels)
      [] opcode = 9 -> Plain("ADD HL,BC", pos, labels)
      [] opcode = 10 -> Plain("LD A,(BC)", pos, labels)
      [] opcode = 11 -> Plain("DEC BC", pos, labels)
      [] opcode = 12 -> Plain("INC C", pos, labels)
      [] opcode = 13 -> Plain("DEC C", pos, labels)
      [] opcode = 14 -> ImmByte("LD C,&", "", data, pos, labels)
      [] opcode = 15 -> Plain("RRCA", pos, labels)
      [] opcode = 16 -> RelBranch("DJNZ ", addr, data, pos, labels)
      [] opcode = 17 -> ImmWord("LD DE,&", "", data, pos, labels)
      [] opcode = 18 -> Plain("LD (DE),A", pos, labels)
      [] opcode = 19 -> Plain("INC DE", pos, labels)
      [] opcode = 20 -> Plain("INC D", pos, labels)
      [] opcode = 21 -> Plain("DEC D", pos, labels)
      [] opcode = 22 -> ImmByte("LD D,&", "", data, pos, labels)
      [] opcode = 23 -> Plain("RLA", pos, labels)
      [] opcode = 24 -> RelBranch("JR ", addr, data, pos, labels)
      [] opcode = 25 -> Plain("ADD HL,DE", pos, labels)
      [] opcode = 26 -> Plain("LD A,(DE)", pos, labels)
      [] opcode = 27 -> Plain("DEC DE", pos, labels)
      [] opcode = 28 -> Plain("INC E", pos, labels)
      [] opcode = 29 -> Plain("DEC E", pos, labels)
      [] opcode = 30 -> ImmByte("LD E,&", "", data, pos, labels)
      [] opcode = 31 -> Plain("RRA", pos, labels)
      [] OTHER -> RawData(opcode, pos, labels)

\* opcodes 0x20-0x27
Main20_27(opcode, addr, data, pos, labels) ==
    CASE opcode = 32 -> RelBranch("JR NZ,", addr, data, pos, labels)
      [] opcode = 33 -> ImmWord("LD HL,&", "", data, pos, labels)
      [] opcode = 34 -> ImmWord("LD (&", "),HL", data, pos, labels)
      [] opcode = 35 -> Plain("INC HL", pos, labels)
      [] opcode = 36 -> Plain("INC H", pos, labels)
      [] opcode = 37 -> Plain("DEC H", pos, labels)
      [] opcode = 38 -> ImmByte("LD H,&", "", data, pos, labels)
      [] opcode = 39 -> Plain("DAA", pos, labels)
      [] OTHER -> RawData(opcode, pos, labels)

\* LD r,r (0x40-0x7F): src = (opcode >> 3) & 0x07, dst = opcode & 0x07
LdRegReg(opcode, pos, labels) ==
    LET src == (opcode \div 8) % 8
        dst == opcode % 8
    IN IF opcode = 118 THEN Plain("HALT", pos, labels)
       ELSE Plain("LD " \o REG_8[dst + 1] \o "," \o REG_8[src + 1], pos, labels)

\* Arithmetic/logical operations (0x80-0xBF): ops[((opcode >> 3) - 0x10) & 0x07]
AluOps == <<"ADD", "ADC", "SUB", "SBC", "AND", "XOR", "OR", "CP">>

AluReg(opcode, pos, labels) ==
    LET op == opcode \div 8
        reg == opcode % 8
    IN Plain(AluOps[((op - 16) % 8) + 1] \o " A," \o REG_8[reg + 1], pos, labels)

\* RET, POP, JP, CALL, PUSH (0xC0-0xFF); 0xCB, 0xDD, 0xED and 0xFD pass
MainC0_FF(opcode, addr, data, pos, labels) ==
    CASE opcode = 192 -> Plain("RET NZ", pos, labels)
      [] opcode = 193 -> Plain("POP BC", pos, labels)
      [] opcode = 194 -> AbsBranch("JP NZ,", data, pos, labels)
      [] opcode = 195 -> AbsBranch("JP ", data, pos, labels)
      [] opcode = 196 -> AbsBranch("CALL NZ,", data, pos, labels)
      [] opcode = 197 -> Plain("PUSH BC", pos, labels)
      [] opcode = 198 -> ImmByte("ADD A,&", "", data, pos, labels)
      [] opcode = 199 -> Plain("RST 0x00", pos, labels)
      [] opcode = 200 -> Plain("RET Z", pos, labels)
      [] opcode = 201 -> Plain("RET", pos, labels)
      [] opcode = 202 -> AbsBranch("JP Z,", data, pos, labels)
      [] opcode = 204 -> AbsBranch("CALL Z,", data, pos, labels)
      [] opcode = 205 -> AbsBranch("CALL ", data, pos, labels)
      [] opcode = 206 -> ImmByte("ADC A,&", "", data, pos, labels)
      [] opcode = 207 -> Plain("RST 0x08", pos, labels)
      [] opcode = 208 -> Plain("RET NC", pos, labels)
      [] opcode = 209 -> Plain("POP DE", pos, labels)
      [] opcode = 210 -> AbsBranch("JP NC,", data, pos, labels)
      [] opcode = 211 -> ImmByte("OUT (&", "),A", data, pos, labels)
      [] opcode = 212 -> AbsBranch("CALL NC,", data, pos, labels)
      [] opcode = 213 -> Plain("PUSH DE", pos, labels)
      [] opcode = 214 -> ImmByte("SUB &", "", data, pos, labels)
      [] opcode = 215 -> Plain("RST 0x10", pos, labels)
      [] opcode = 216 -> Plain("RET C", pos, labels)
      [] opcode = 217 -> Plain("EXX", pos, labels)
      [] opcode = 218 -> AbsBranch("JP C,", data, pos, labels)
      [] opcode = 219 -> ImmByte("IN A,(&", ")", data, pos, labels)
      [] opcode = 220 -> AbsBranch("CALL C,", data, pos, labels)
      [] opcode = 222 -> ImmByte("SBC A,&", "", data, pos, labels)
      [] opcode = 223 -> Plain("RST 0x18", pos, labels)
      [] opcode = 224 -> Plain("RET PO", pos, labels)
      [] opcode = 225 -> Plain("POP HL", pos, labels)
      [] opcode = 226 -> AbsBranch("JP PO,", data, pos, labels)
      [] opcode = 227 -> Plain("EX (SP),HL", pos, labels)
      [] opcode = 228 -> AbsBranch("CALL PO,", data, pos, labels)
      [] opcode = 229 -> Plain("PUSH HL", pos, labels)
      [] opcode = 230 -> ImmByte("AND &", "", data, pos, labels)
      [] opcode = 231 -> Plain("RST 0x20", pos, labels)
      [] opcode = 232 -> Plain("RET PE", pos, labels)
      [] opcode = 233 -> Plain("JP (HL)", pos, labels)
      [] opcode = 234 -> AbsBranch("JP PE,", data, pos, labels)
      [] opcode = 235 -> Plain("EX DE,HL", pos, labels)
      [] opcode = 236 -> AbsBranch("CALL PE,", data, pos, labels)
      [] opcode = 238 -> ImmByte("XOR &", "", data, pos, labels)
      [] opcode = 239 -> Plain("RST 0x28", pos, labels)
      [] opcode = 240 -> Plain("RET P", pos, labels)
      [] opcode = 241 -> Plain("POP AF", pos, labels)
      [] opcode = 242 -> AbsBranch("JP P,", data, pos, labels)
      [] opcode = 243 -> Plain("DI", pos, labels)
      [] opcode = 244 -> AbsBranch("CALL P,", data, pos, labels)
      [] opcode = 245 -> Plain("PUSH AF", pos, labels)
      [] opcode = 246 -> ImmByte("OR &", "", data, pos, labels)
      [] opcode = 247 -> Plain("RST 0x30", pos, labels)
      [] opcode = 248 -> Plain("RET M", pos, labels)
      [] opcode = 249 -> Plain("LD SP,HL", pos, labels)
      [] opcode = 250 -> AbsBranch("JP M,", data, pos, labels)
      [] opcode = 251 -> Plain("EI", pos, labels)
      [] opcode = 252 -> AbsBranch("CALL M,", data, pos, labels)
      [] opcode = 254 -> ImmByte("CP &", "", data, pos, labels)
      [] opcode = 255 -> Plain("RST 0x38", pos, labels)
      [] OTHER -> RawData(opcode, pos, labels)

(***************************************************************************)
(* The prefix decoders.  pos is the cursor after the prefix byte.          *)
(***************************************************************************)
\* return f"DB &<prefix>,&{opcode:02X}", 2: the fallback of every prefix
\* decoder for a second byte it has no branch for; pos is the cursor after
\* that second byte.
PrefixRaw(prefix, opcode, pos, labels) ==
    Ok("DB &" \o Hex2(prefix) \o ",&" \o Hex2(opcode), 2, pos, labels, None)

\* The second bytes each prefix decoder has a branch for (every second
\* byte of 0xCB falls in one of its four classes).
ModeledUnder(prefix) ==
    CASE prefix = 203 -> 0..255
      [] prefix = 237 -> {68, 76, 84, 92, 100, 108, 116, 124,
                          70, 78, 86, 94, 102, 110, 118, 126,
                          87, 95, 103, 111,
                          160, 161, 162, 163, 168, 169, 170, 171,
                          176, 177, 178, 179, 184, 185, 186, 187}
      [] prefix = 221 -> {33, 225, 229, 233, 54}
      [] prefix = 253 -> {33, 225, 229, 233}

CbOps == <<"RLC", "RRC", "RL", "RR", "SLA", "SRA", "SLL", "SRL">>

DigitChars == <<"0", "1", "2", "3", "4", "5", "6", "7">>

disassemble_cb_prefix(addr, data, pos, labels) ==
    LET r == read_byte(data, pos) IN
    IF r.val = None THEN Ok("DB &CB", 1, r.pos, labels, None)
    ELSE LET opcode == r.val[1]
             bit_op == (opcode \div 64) % 4
             reg == opcode % 8
             bit == (opcode \div 8) % 8
         IN CASE bit_op = 0 ->
                   Ok(CbOps[bit + 1] \o " " \o REG_8[reg + 1], 2, r.pos, labels, None)
              [] bit_op = 1 ->
                   Ok("BIT " \o DigitChars[bit + 1] \o "," \o REG_8[reg + 1],
                      2, r.pos, labels, None)
              [] bit_op = 2 ->
                   Ok("RES " \o DigitChars[bit + 1] \o "," \o REG_8[reg + 1],
                      2, r.pos, labels, None)
              [] bit_op = 3 ->
                   Ok("SET " \o DigitChars[bit + 1] \o "," \o REG_8[reg + 1],
                      2, r.pos, labels, None)
              [] OTHER -> PrefixRaw(203, opcode, r.pos, labels)

disassemble_ed_prefix(addr, data, pos, labels) ==
    LET r == read_byte(data, pos) IN
    IF r.val = None THEN Ok("DB &ED", 1, r.pos, labels, None)
    ELSE LET opcode == r.val[1]
             Two(text) == Ok(text, 2, r.pos, labels, None)
         IN CASE opcode \in {68, 76, 84, 92, 100, 108, 116, 124} -> Two("NEG")
              [] opcode \in {70, 78, 86, 94, 102, 110, 118, 126} -> Two("IM 0")
              [] opcode = 87 -> Two("LD A,I")
              [] opcode = 95 -> Two("LD A,R")
              [] opcode = 103 -> Two("RRD")
              [] opcode = 111 -> Two("RLD")
              [] opcode = 160 -> Two("LDI")
              [] opcode = 161 -> Two("CPI")
              [] opcode = 162 -> Two("INI")
              [] opcode = 163 -> Two("OUTI")
              [] opcode = 168 -> Two("LDD")
              [] opcode = 169 -> Two("CPD")
              [] opcode = 170 -> Two("IND")
              [] opcode = 171 -> Two("OUTD")
              [] opcode = 176 -> Two("LDIR")
              [] opcode = 177 -> Two("CPIR")
              [] opcode = 178 -> Two("INIR")
              [] opcode = 179 -> Two("OTIR")
              [] opcode = 184 -> Two("LDDR")
              [] opcode = 185 -> Two("CPDR")
              [] opcode = 186 -> Two("INDR")
              [] opcode = 187 -> Two("OTDR")
              [] OTHER -> PrefixRaw(237, opcode, r.pos, labels)

\* The index-register decoders differ in the register name and in the
\* displacement-addressed store (0x36), which only the IX decoder models.
disassemble_dd_prefix(addr, data, pos, labels) ==
    LET r == read_byte(data, pos) IN
    IF r.val = None THEN Ok("DB &DD", 1, r.pos, labels, None)
    ELSE LET opcode == r.val[1] IN
         CASE opcode = 33 ->
                LET w == read_word(data, r.pos) IN
                IF w.val = None THEN Raised(w.pos, labels)
                ELSE Ok("LD IX,&" \o Hex4(w.val[1]), 4, w.pos, labels, None)
           [] opcode = 225 -> Ok("POP IX", 2, r.pos, labels, None)
           [] opcode = 229 -> Ok("PUSH IX", 2, r.pos, labels, None)
           [] opcode = 233 -> Ok("JP (IX)", 2, r.pos, labels, None)
           [] opcode = 54 ->
                \* byte = self.read_byte(); offset = self.read_byte()
                \* if offset > 127: offset -= 256   (None > 127 raises)
                LET b == read_byte(data, r.pos)
                    o == read_byte(data, b.pos)
                IN IF o.val = None THEN Raised(o.pos, labels)
                   ELSE Ok("LD (IX+&" \o Hex2(SignedOffset(o.val[1])) \o "),&"
                              \o Hex2(b.val[1]),
                           4, o.pos, labels, None)
           [] OTHER -> PrefixRaw(221, opcode, r.pos, labels)

disassemble_fd_prefix(addr, data, pos, labels) ==
    LET r == read_byte(data, pos) IN
    IF r.val = None THEN Ok("DB &FD", 1, r.pos, labels, None)
    ELSE LET opcode == r.val[1] IN
         CASE opcode = 33 ->
                LET w == read_word(data, r.pos) IN
                IF w.val = None THEN Raised(w.pos, labels)
                ELSE Ok("LD IY,&" \o Hex4(w.val[1]), 4, w.pos, labels, None)
           [] opcode = 225 -> Ok("POP IY", 2, r.pos, labels, None)
           [] opcode = 229 -> Ok("PUSH IY", 2, r.pos, labels, None)
           [] opcode = 233 -> Ok("JP (IY)", 2, r.pos, labels, None)
           [] OTHER -> PrefixRaw(253, opcode, r.pos, labels)

(***************************************************************************)
(* disassemble_instruction: decode the instruction at the cursor.  addr    *)
(* is start_addr + pos before the opcode is read.                          *)
(***************************************************************************)
disassemble_instruction(data, pos, start_addr, labels) ==
    IF pos >= Len(data) THEN NoInstruction(pos, labels)
    ELSE LET addr == start_addr + pos
             r == read_byte(data, pos)
             opcode == r.val[1]
         IN CASE opcode = 203 -> disassemble_cb_prefix(addr, data, r.pos, labels)
              [] opcode = 237 -> disassemble_ed_prefix(addr, data, r.pos, labels)
              [] opcode = 221 -> disassemble_dd_prefix(addr, data, r.pos, labels)
              [] opcode = 253 -> disassemble_fd_prefix(addr, data, r.pos, labels)
              [] opcode <= 31 -> Main00_1F(opcode, addr, data, r.pos, labels)
              [] opcode >= 32 /\ opcode <= 39 ->
                    Main20_27(opcode, addr, data, r.pos, labels)
              [] opcode >= 64 /\ opcode <= 127 -> LdRegReg(opcode, r.pos, labels)
              [] opcode >= 128 /\ opcode <= 191 -> AluReg(opcode, r.pos, labels)
              [] opcode >= 192 /\ opcode <= 255 ->
                    MainC0_FF(opcode, addr, data, r.pos, labels)
              [] OTHER -> RawData(opcode, r.pos, labels)

(***************************************************************************)
(* The inputs: the image, the base address and the cap on listing lines.   *)
(* Images are all byte sequences of length at most MaxLen over CoreBytes   *)
(* (plain opcodes, a relative branch, the absolute CALL, a prefix, and     *)
(* bytes that serve as operands: 0xFE and 0xFD are the displacements -2    *)
(* and -3), every opcode of the base table and every                       *)
(* second byte of the four prefixes alone and followed by operand bytes,   *)
(* every branch the decoder models over a range of operands, and the       *)
(* images the specification names.                                         *)
(***************************************************************************)
CoreBytes == {0, 3, 16, 205, 253, 254}

Prefixes == {203, 221, 237, 253}

OperandTails == {<< >>, <<5, 128>>}

\* The relative branches the decoder has a branch for (DJNZ, JR, JR NZ) and
\* the absolute ones (JP, JP cc, CALL, CALL cc).
RelOpcodes == {16, 24, 32}

AbsOpcodes ==
    {194, 195, 196, 202, 204, 205, 210, 212, 218, 220,
     226, 228, 234, 236, 242, 244, 250, 252}

\* Every relative branch with every displacement byte, first in the image
\* and after a NOP, and every absolute branch with operand bytes from both
\* halves of the byte range, alone and after a relative branch.
WordBytes == {0, 1, 127, 128, 255}

BranchImages ==
    {<<op, d>> : op \in RelOpcodes, d \in 0..255}
      \cup {<<0, op, d>> : op \in RelOpcodes, d \in 0..255}
      \cup {<<op, lo, hi>> : op \in AbsOpcodes, lo \in WordBytes, hi \in WordBytes}
      \cup {<<r, d, c, lo, hi>> : r \in RelOpcodes, d \in {127, 128},
                                 c \in {195, 205}, lo \in {0, 255}, hi \in {0, 255}}

OpcodeImages ==
    {<<op>> \o t : op \in 0..255, t \in OperandTails}
      \cup {<<p, x>> \o t : p \in Prefixes, x \in 0..255, t \in OperandTails}

NamedImages ==
    { <<62, 5, 195, 0, 0>>, <<237, 0>>, <<16, 254>>,
      <<1>>, <<1, 0>>, <<6>>, <<16>>, <<195, 0>>,
      <<221, 33, 0>>, <<221, 54, 0>>, <<221, 54, 18, 52>> }

Images ==
    UNION {[1..n -> CoreBytes] : n \in 0..MaxLen}
      \cup OpcodeImages \cup BranchImages \cup NamedImages

Bases == {0, 65534}

Caps == {None} \cup {Some(n) : n \in 1..MaxCap}

(***************************************************************************)
(* The state: the fields of a Z80Disassembler (data, pos, start_addr,      *)
(* labels), the argument and locals of disassemble_all (max_lines, output, *)
(* line_count), where its control is (pc), the text it returns (listing),  *)
(* and the instructions decoded so far (decoded: a history of the loop,    *)
(* one record per line appended to output).                                *)
(***************************************************************************)
VARIABLES data, start_addr, max_lines, pos, labels, output, line_count, pc,
          listing, decoded

vars == <<data, start_addr, max_lines, pos, labels, output, line_count, pc,
          listing, decoded>>

\* "\n".join(output)
RECURSIVE Join(_)
Join(lines) ==
    IF lines = << >> THEN ""
    ELSE IF Len(lines) = 1 THEN lines[1]
    ELSE lines[1] \o "\n" \o Join(Tail(lines))

\* Z80Disassembler(data, start_addr); disassemble_all not yet entered
Init ==
    /\ data \in Images
    /\ start_addr \in Bases
    /\ max_lines \in Caps
    /\ pos = 0
    /\ labels = NoLabels
    /\ output = << >>
    /\ line_count = 0
    /\ pc = "new"
    /\ listing = ""
    /\ decoded = << >>

\* disassemble_all, up to the loop: the origin directive
Begin ==
    /\ pc = "new"
    /\ output' = <<"ORG &" \o Hex4(start_addr) \o "\n">>
    /\ line_count' = 0
    /\ pc' = "loop"
    /\ UNCHANGED <<data, start_addr, max_lines, pos, labels, listing, decoded>>

\* The label test made against the registry as it was before the
\* instruction was decoded.
NeedsLabel_before_decode(addr, lbls, d, p) ==
    addr \in DOMAIN labels \/ peek_byte(d, p, 0) = Some(205)

\* if addr in self.labels or self.peek_byte() == 0xCD
NeedsLabel(addr, lbls, d, p) ==
    addr \in DOMAIN lbls \/ peek_byte(d, p, 0) = Some(205)

\* One iteration of the loop in which the decoder returns an instruction:
\* the line is appended, and the loop is left when the cap is reached.
Decode ==
    /\ pc = "loop"
    /\ pos < Len(data)
    /\ LET addr == start_addr + pos
           r == disassemble_instruction(data, pos, start_addr, labels)
           lab == IF NeedsLabel(addr, r.labels, data, r.pos)
                  THEN format_addr(addr) ELSE << >>
           label_line == IF lab = << >> THEN "" ELSE Str(lab) \o ":\n"
           out == Append(output, label_line \o r.inst)
           capped == max_lines # None /\ line_count + 1 >= max_lines[1]
       IN /\ r.kind = "ok"
          /\ pos' = r.pos
          /\ labels' = r.labels
          /\ output' = out
          /\ line_count' = line_count + 1
          /\ decoded' = Append(decoded, [addr |-> addr, size |-> r.size,
                                         inst |-> r.inst, label |-> lab,
                                         target |-> r.target])
          /\ pc' = IF capped THEN "done" ELSE "loop"
          /\ listing' = IF capped THEN Join(out) ELSE listing
    /\ UNCHANGED <<data, start_addr, max_lines>>

\* One iteration of the loop in which the decoder raises: the exception
\* leaves disassemble_all, nothing is returned.
DecodeRaises ==
    /\ pc = "loop"
    /\ pos < Len(data)
    /\ LET r == disassemble_instruction(data, pos, start_addr, labels)
       IN /\ r.kind = "raised"
          /\ pos' = r.pos
          /\ labels' = r.labels
    /\ pc' = "raised"
    /\ UNCHANGED <<data, start_addr, max_lines, output, line_count, listing,
                   decoded>>

\* The loop ends at the end of the image (or on a decoder that returns
\* None, which it does only there), and the listing is returned.
Return ==
    /\ pc = "loop"
    /\ \/ pos >= Len(data)
       \/ disassemble_instruction(data, pos, start_addr, labels).kind = "none"
    /\ pc' = "done"
    /\ listing' = Join(output)
    /\ UNCHANGED <<data, start_addr, max_lines, pos, labels, output,
                   line_count, decoded>>

Next == Begin \/ Decode \/ DecodeRaises \/ Return

Spec == Init /\ [][Next]_vars

(***************************************************************************)
(* Vocabulary of the properties.                                           *)
(***************************************************************************)
Finished == pc \in {"done", "raised"}

Uncapped == max_lines = None

\* The offset in the image of the j-th decoded instruction, and its first
\* byte.
OffsetOf(j) == decoded[j].addr - start_addr

OpcodeAt(j) == data[OffsetOf(j) + 1]

RECURSIVE SumSizes(_)
SumSizes(insts) ==
    IF insts = << >> THEN 0 ELSE Head(insts).size + SumSizes(Tail(insts))

\* Each instruction starts where the one before it ends, the first at the
\* base address.
Contiguous ==
    \A j \in 1..Len(decoded) :
        decoded[j].addr =
            IF j = 1 THEN start_addr
            ELSE decoded[j - 1].addr + decoded[j - 1].size

\* The registry an uncapped disassemble_all leaves behind when started at
\* cursor p with registry lbls: the loop run to the end of the image, or to
\* the instruction whose decoding raises.
RECURSIVE SweepLabels(_, _, _, _)
SweepLabels(d, p, base, lbls) ==
    IF p >= Len(d) THEN lbls
    ELSE LET r == disassemble_instruction(d, p, base, lbls)
         IN IF r.kind = "ok" THEN SweepLabels(d, r.pos, base, r.labels)
            ELSE r.labels

HexCharSet == {HexChars[i] : i \in 1..16}

\* 'L' followed by exactly four uppercase hexadecimal digits
IsLabelName(s) ==
    /\ Len(s) = 5
    /\ s[1] = "L"
    /\ \A i \in 2..5 : s[i] \in HexCharSet

RelMnemonic(opcode) ==
    CASE opcode = 16 -> "DJNZ "
      [] opcode = 24 -> "JR "
      [] opcode = 32 -> "JR NZ,"

(***************************************************************************)
(* C1.  disassemble_all runs to completion without raising, for every      *)
(* image and base address: no state is reached in which an exception has   *)
(* left the loop.  The code violates it: a None operand (the image ends    *)
(* inside the operand bytes) is formatted or compared, which raises        *)
(* TypeError.                                                              *)
(***************************************************************************)
C1_NeverRaises == pc # "raised"

(***************************************************************************)
(* C2.  After an uncapped disassemble_all, every decoded control transfer  *)
(* has its resolved target T in the label registry, and when T is the      *)
(* address of a decoded instruction, that instruction's output line is the *)
(* label-definition line for T followed by the instruction (and, addresses *)
(* being distinct, no other line carries it).  The code violates it for a  *)
(* branch back to an already-emitted address.                              *)
(***************************************************************************)
C2_TargetsLabelled ==
    (pc = "done" /\ Uncapped) =>
        \A i \in 1..Len(decoded) :
            decoded[i].target # None =>
                LET T == decoded[i].target[1] IN
                /\ T \in DOMAIN labels
                /\ \A j \in 1..Len(decoded) :
                      decoded[j].addr = T =>
                          /\ decoded[j].label = labels[T]
                          /\ output[j + 1] =
                                Str(labels[T]) \o ":\n" \o decoded[j].inst

(***************************************************************************)
(* C3.  Every label-definition line emitted is for an address that is a    *)
(* key of the final label registry; no instruction is given a label line   *)
(* for another reason.  The code violates it: an instruction followed by   *)
(* the byte 0xCD gets a label line whatever the registry holds.            *)
(***************************************************************************)
C3_LabelLinesAreTargets ==
    pc = "done" =>
        \A j \in 1..Len(decoded) :
            decoded[j].label # << >> => decoded[j].addr \in DOMAIN labels

(***************************************************************************)
(* C4.  An uncapped disassemble_all of any image ends with the cursor at   *)
(* the end of the image, having decoded instructions that follow one       *)
(* another without gap or overlap from the base address and whose sizes    *)
(* sum to the length of the image.  The code violates it when the image    *)
(* ends inside an instruction: the decoder raises (C1) and the bytes of    *)
(* that instruction are in no decoded instruction.                         *)
(***************************************************************************)
C4_FullCoverage ==
    (Finished /\ Uncapped) =>
        /\ pos = Len(data)
        /\ SumSizes(decoded) = Len(data)
        /\ Contiguous

(***************************************************************************)
(* C5.  The image 3E 05 C3 00 00 at base 0 decodes to exactly              *)
(* "LD A,&05" at 0 (length 2), with the label line "L0000:" before it,     *)
(* and "JP L0000" at 2 (length 3).  The code violates it: it has no        *)
(* branch for 0x3E, and the registry does not hold 0 yet when the          *)
(* instruction at 0 is emitted.                                            *)
(***************************************************************************)
C5_ConcreteLdJp ==
    (data = <<62, 5, 195, 0, 0>> /\ start_addr = 0 /\ Uncapped /\ pc = "done") =>
        /\ Len(decoded) = 2
        /\ decoded[1].addr = 0
        /\ decoded[1].size = 2
        /\ decoded[1].inst = "LD A,&05"
        /\ decoded[1].label = <<"L", "0", "0", "0", "0">>
        /\ decoded[2].addr = 2
        /\ decoded[2].size = 3
        /\ decoded[2].inst = "JP L0000"
        /\ listing = "ORG &0000\n\nL0000:\nLD A,&05\nJP L0000"

(***************************************************************************)
(* C6.  A decoded instruction that starts with a prefix byte P (0xCB,      *)
(* 0xED, 0xDD, 0xFD) followed in the image by a byte X that P's decoder    *)
(* has no branch for is a 1-byte raw-data instruction carrying P alone:    *)
(* the cursor advances by exactly 1 and X is decoded as the next           *)
(* instruction from the base table; ED 00 at base 0 lists "DB &ED" and     *)
(* then "NOP".  The code violates it: the fallback of the ED, DD and FD    *)
(* decoders consumes X as well and returns the 2-byte "DB &PP,&XX", so X   *)
(* is never decoded as an instruction of its own.                          *)
(***************************************************************************)
UnmodeledPair(j) ==
    /\ OpcodeAt(j) \in Prefixes
    /\ OffsetOf(j) + 1 < Len(data)
    /\ data[OffsetOf(j) + 2] \notin ModeledUnder(OpcodeAt(j))

C6_PrefixAloneIsRaw ==
    /\ \A j \in 1..Len(decoded) :
          UnmodeledPair(j) =>
              /\ decoded[j].size = 1
              /\ decoded[j].inst = "DB &" \o Hex2(OpcodeAt(j))
              /\ j < Len(decoded) => decoded[j + 1].addr = decoded[j].addr + 1
    /\ (data = <<237, 0>> /\ start_addr = 0 /\ pc = "done" /\ Uncapped) =>
          listing = "ORG &0000\n\nDB &ED\nNOP"

(***************************************************************************)
(* C7.  The registry after disassemble_all(max_lines=N), N >= 1, equals    *)
(* the registry after an uncapped disassemble_all of the same image and    *)
(* base.  The code violates it: the cap ends the one loop that both        *)
(* decodes and registers, so the targets of the instructions after the     *)
(* cap are never registered.                                               *)
(***************************************************************************)
C7_CapKeepsRegistry ==
    (pc = "done" /\ ~Uncapped) =>
        labels = SweepLabels(data, 0, start_addr, NoLabels)

(***************************************************************************)
(* C8.  Every label name in the registry or in a label-definition line of  *)
(* the listing is 'L' followed by exactly four uppercase hexadecimal       *)
(* digits, for every base address in 0..0xFFFF.  The code violates it: a   *)
(* relative target below 0 is formatted with a minus sign, and an address  *)
(* above 0xFFFF with five digits.                                          *)
(***************************************************************************)
C8_LabelNamesFourHex ==
    /\ \A a \in DOMAIN labels : IsLabelName(labels[a])
    /\ \A j \in 1..Len(decoded) :
          decoded[j].label # << >> => IsLabelName(decoded[j].label)

(***************************************************************************)
(* C9.  When the loop is about to decode the last byte of the image and    *)
(* that byte is a prefix byte (0xCB, 0xED, 0xDD or 0xFD), the step decodes *)
(* exactly one raw-data instruction of size 1 for the prefix byte itself,  *)
(* does not raise, and leaves the cursor at the end of the image (no       *)
(* follow-up byte is consumed).                                            *)
(***************************************************************************)
C9_TrailingPrefixIsRaw ==
    [][ (pc = "loop" /\ pos >= 0 /\ pos = Len(data) - 1
            /\ data[pos + 1] \in Prefixes)
        => /\ pc' # "raised"
           /\ pos' = Len(data)
           /\ Len(decoded') = Len(decoded) + 1
           /\ decoded'[Len(decoded')].addr = start_addr + pos
           /\ decoded'[Len(decoded')].size = 1
           /\ decoded'[Len(decoded')].inst = "DB &" \o Hex2(data[pos + 1])
           /\ decoded'[Len(decoded')].target = None ]_vars

C9_Witness ==
    /\ pc = "done"
    /\ Len(decoded) >= 2
    /\ OffsetOf(Len(decoded)) = Len(data) - 1
    /\ data[Len(data)] \in Prefixes
    /\ decoded[Len(decoded)].size = 1
    /\ pos = Len(data)

(***************************************************************************)
(* C10.  A relative branch (DJNZ, JR, JR NZ) whose resolved target is its  *)
(* own address is registered under that address, and its output line is    *)
(* the label-definition line for that address followed by the branch with  *)
(* that same label name as operand; 10 FE at base 0 lists "L0000:" and     *)
(* then "DJNZ L0000".                                                      *)
(***************************************************************************)
C10_SelfBranchLabelled ==
    /\ \A j \in 1..Len(decoded) :
          (OpcodeAt(j) \in RelOpcodes /\ decoded[j].target = Some(decoded[j].addr))
          => LET a == decoded[j].addr IN
             /\ a \in DOMAIN labels
             /\ decoded[j].label = labels[a]
             /\ output[j + 1] =
                   Str(labels[a]) \o ":\n" \o RelMnemonic(OpcodeAt(j))
                       \o Str(labels[a])
    /\ (data = <<16, 254>> /\ start_addr = 0 /\ pc = "done") =>
          listing = "ORG &0000\n\nL0000:\nDJNZ L0000"

C10_Witness ==
    /\ pc = "done"
    /\ \E j \in 1..Len(decoded) :
          /\ j > 1
          /\ OpcodeAt(j) \in RelOpcodes
          /\ decoded[j].target = Some(decoded[j].addr)
          /\ decoded[j].label # << >>

(***************************************************************************)
(* C11.  A decoded relative branch (DJNZ, JR, JR NZ) at address a with     *)
(* displacement byte d has the target a + 2 + d when d <= 127 and          *)
(* a + 2 + d - 256 when d >= 128; a decoded absolute JP or CALL            *)
(* (conditional or not) with operand bytes lo, hi has the target           *)
(* lo + 256 * hi (lo | (hi << 8)), whatever the base address.  The target  *)
(* is a key of the registry from then on.                                  *)
(***************************************************************************)
C11_ResolvedTargets ==
    \A j \in 1..Len(decoded) :
        LET o == OffsetOf(j)
            a == decoded[j].addr
        IN /\ OpcodeAt(j) \in RelOpcodes =>
                LET d == data[o + 2]
                    t == IF d <= 127 THEN a + 2 + d ELSE a + 2 + d - 256
                IN decoded[j].target = Some(t) /\ t \in DOMAIN labels
           /\ OpcodeAt(j) \in AbsOpcodes =>
                LET t == data[o + 2] + 256 * data[o + 3]
                IN decoded[j].target = Some(t) /\ t \in DOMAIN labels

C11_Witness ==
    /\ pc = "done"
    /\ start_addr = 65534
    /\ \E j \in 1..Len(decoded) :
          /\ OpcodeAt(j) \in RelOpcodes
          /\ data[OffsetOf(j) + 2] >= 128
          /\ decoded[j].target # None
          /\ decoded[j].target[1] \in DOMAIN labels
    /\ \E k \in 1..Len(decoded) :
          /\ OpcodeAt(k) \in AbsOpcodes
          /\ decoded[k].target # None

(***************************************************************************)
(* C12.  A decoded DD 36 b1 b2 has size 4 and is rendered with b1, the     *)
(* byte right after the opcode 0x36, as the index displacement and b2 as   *)
(* the immediate value: "LD (IX+b1),b2" (the displacement signed, in the   *)
(* decoder's two-digit hexadecimal).  The code violates it: it reads b1    *)
(* into byte and b2 into offset and renders "LD (IX+offset),byte".         *)
(***************************************************************************)
C12_IndexedStoreOperands ==
    \A j \in 1..Len(decoded) :
        (OpcodeAt(j) = 221 /\ OffsetOf(j) + 1 < Len(data)
            /\ data[OffsetOf(j) + 2] = 54)
        => LET b1 == data[OffsetOf(j) + 3]
               b2 == data[OffsetOf(j) + 4]
           IN /\ decoded[j].size = 4
              /\ decoded[j].inst =
                    "LD (IX+&" \o Hex2(SignedOffset(b1)) \o "),&" \o Hex2(b2)

(***************************************************************************)
(* C13.  A decoded opcode in 0x40..0x7F other than 0x76 has size 1 and is  *)
(* rendered "LD d,s" with d = REG_8[(opcode >> 3) & 7], the destination    *)
(* field, and s = REG_8[opcode & 7], the source field: 0x41 is "LD B,C"    *)
(* and 0x78 is "LD A,B".  The code violates it: it renders                 *)
(* REG_8[opcode & 7] first and REG_8[(opcode >> 3) & 7] second.            *)
(***************************************************************************)
C13_LdRegRegOperands ==
    /\ \A j \in 1..Len(decoded) :
          (OpcodeAt(j) >= 64 /\ OpcodeAt(j) <= 127 /\ OpcodeAt(j) # 118)
          => /\ decoded[j].size = 1
             /\ decoded[j].inst =
                   "LD " \o REG_8[((OpcodeAt(j) \div 8) % 8) + 1] \o ","
                       \o REG_8[(OpcodeAt(j) % 8) + 1]
    /\ (data = <<65>> /\ pc = "done") => output[2] = "LD B,C"
    /\ (data = <<120>> /\ pc = "done") => output[2] = "LD A,B"

=============================================================================
